---- MODULE Spec2Model ----
(***************************************************************************)
(* Model of the AgroScan advisory backend.                                 *)
(*                                                                         *)
(* Part 1: the rule engine (ruleEngine.js).  The repository holds two      *)
(* versions of ruleEngine(ph, moisture, temperature): the early one with   *)
(* the basic checks only, and the progressive one (basic, advanced,        *)
(* scientific).  Both are modelled; one call of either is one action.      *)
(*                                                                         *)
(* JavaScript values are records [type, val]: a number carries its value   *)
(* in val, and undefined, null and NaN carry val = 0.  pH readings are     *)
(* held in tenths (ph = 6.5 is val = 65), so the pH thresholds of the code *)
(* 5.5, 6, 7.5, 8, 8.5 read 55, 60, 75, 80, 85; moisture and temperature   *)
(* are held in units.                                                      *)
(*                                                                         *)
(* Part 2: the conversation handler askPerplexityChat with the command     *)
(* table of preassignedCommands.js.  The repository holds two versions of  *)
(* the handler (perplexity-chat-handler.js, which uses axios, and the      *)
(* earlier one, which uses fetch); one call of either is one action.       *)
(*                                                                         *)
(* A JavaScript string is a record [type |-> "string", chars |-> s] where  *)
(* s is a sequence of atoms.  A message typed by a user is a sequence of   *)
(* single characters; a fixed text of the code (a canned response, a       *)
(* fallback) is one atom holding the text, which has no white space at     *)
(* either end.  Other values returned by the collaborator or found by a    *)
(* property lookup carry their type and no characters.                     *)
(*                                                                         *)
(* Part 3: the route POST /recommend with askPerplexityRecommend, of which *)
(* the repository holds three versions (two that use fetch, one that uses  *)
(* the Perplexity client); one request is one action.                      *)
(*                                                                         *)
(* Part 4: the route POST /chat over the tables chat_sessions and          *)
(* ai_chats.  Requests run concurrently: every awaited query is one action *)
(* of the request that issues it, and the code between two awaits runs     *)
(* with the query that follows it.                                         *)
(*                                                                         *)
(* Part 5: the routes of Server.js on the tables orders, users and lands   *)
(* (place an order, add and update a land, delete a user, change a         *)
(* password) and the chat history routes.  A transaction holds what its    *)
(* statements wrote until it commits; every awaited call is one action of  *)
(* the request that issues it, and an awaited call may reject.             *)
(***************************************************************************)
EXTENDS Integers, Sequences, FiniteSets

VARIABLES ph, moisture, temperature, engine, recommendations

\* The conversation handler: the version that ran, its argument, what the
\* completion collaborator does when asked, the outcome of the call, and the
\* prompts handed to the collaborator.
VARIABLES handler, messages, completion, chatState, chatValue, prompts

\* The route POST /recommend: the version of askPerplexityRecommend that ran,
\* the desiredCrop of the request body, the response sent, and the calls
\* made while handling the request, in order.
VARIABLES recommender, desiredCrop, response, events

\* The route POST /chat: the two tables and the requests under way.
VARIABLES chat_sessions, ai_chats, requests

ruleVars == <<ph, moisture, temperature, engine, recommendations>>

routeVars == <<chat_sessions, ai_chats, requests>>

\* The tables orders, users and lands, and the requests of the routes that
\* work on them; the requests of GET /api/chat/history/:userId.
VARIABLES orders, orderRequests, users, lands, deleteRequests,
          passwordRequests, landRequests, historyRequests

dbVars ==
  <<orders, orderRequests, users, lands, deleteRequests, passwordRequests,
    landRequests, historyRequests>>

recVars == <<recommender, desiredCrop, response, events>>

chatVars == <<handler, messages, completion, chatState, chatValue, prompts>>

vars == <<ruleVars, chatVars, recVars, routeVars, dbVars>>

----------------------------------------------------------------------------
(* Bounds of the input grid. *)

MinPh10 == 45
MaxPh10 == 95
MinMoisture == 10
MaxMoisture == 90
BelowZero == 1
MaxTemperature == 45

\* Prior turns handed to the conversation handler, and white space around a
\* typed message.
MaxHistory == 8
MaxPad == 2

\* Rows of ai_chats stored for a user before the requests start.
MaxStored == 6

----------------------------------------------------------------------------
(* JavaScript values and the comparisons the code applies to them. *)

Num(n) == [type |-> "number", val |-> n]
Undefined == [type |-> "undefined", val |-> 0]
Null == [type |-> "null", val |-> 0]
NaN == [type |-> "NaN", val |-> 0]

\* ToNumber of the operand of a relational comparison: null is 0, undefined
\* is NaN.
ToNumber(v) ==
  CASE v.type = "number" -> v
    [] v.type = "null" -> Num(0)
    [] OTHER -> NaN

\* v < k, v > k, v >= k, v <= k for a numeric literal k: false when v
\* converts to NaN.
Lt(v, k) == ToNumber(v).type = "number" /\ ToNumber(v).val < k
Gt(v, k) == ToNumber(v).type = "number" /\ ToNumber(v).val > k
Ge(v, k) == ToNumber(v).type = "number" /\ ToNumber(v).val >= k
Le(v, k) == ToNumber(v).type = "number" /\ ToNumber(v).val <= k

\* if (v): undefined, null, NaN and 0 are falsy, every other number is truthy.
Truthy(v) == v.type = "number" /\ v.val # 0

\* v !== undefined
IsDefined(v) == v.type # "undefined"

----------------------------------------------------------------------------
(* The early rule engine: basic checks only. *)

BasicMessages ==
  [ acidic    |-> "Soil is acidic. Add lime to balance pH.",
    alkaline  |-> "Soil is alkaline. Add sulfur or organic compost.",
    optimal   |-> "Soil pH is optimal for most crops.",
    dry       |-> "Soil is too dry. Irrigation is recommended.",
    wet       |-> "Soil is waterlogged. Improve drainage.",
    good      |-> "Soil moisture is within a good range.",
    low       |-> "Temperature is low. Consider frost protection.",
    high      |-> "Temperature is high. Shade crops or increase irrigation.",
    favorable |-> "Temperature is favorable for most crops." ]

ruleEngineBasic(p, m, t) ==
  LET phPart == IF Lt(p, 60) THEN <<BasicMessages.acidic>>
                ELSE IF Gt(p, 80) THEN <<BasicMessages.alkaline>>
                ELSE <<BasicMessages.optimal>>
      moisturePart == IF Lt(m, 30) THEN <<BasicMessages.dry>>
                      ELSE IF Gt(m, 70) THEN <<BasicMessages.wet>>
                      ELSE <<BasicMessages.good>>
      temperaturePart == IF Truthy(t)
                         THEN IF Lt(t, 15) THEN <<BasicMessages.low>>
                              ELSE IF Gt(t, 35) THEN <<BasicMessages.high>>
                              ELSE <<BasicMessages.favorable>>
                         ELSE <<>>
  IN phPart \o moisturePart \o temperaturePart

----------------------------------------------------------------------------
(* The progressive rule engine: basic, advanced and scientific checks. *)

Messages ==
  [ acidic    |-> "Soil is acidic. Add lime to balance pH.",
    alkaline  |-> "Soil is alkaline. Add sulfur or compost.",
    optimal   |-> "Soil pH is good for most crops.",
    dry       |-> "Soil is dry. Irrigation is recommended.",
    wet       |-> "Soil is wet. Avoid overwatering.",
    good      |-> "Soil moisture is in a healthy range.",
    low       |-> "Temperature is low. Frost protection may be needed.",
    high      |-> "Temperature is high. Provide shade or extra water.",
    favorable |-> "Temperature is suitable for most crops.",
    veryAcidic       |-> "Very acidic soil. Apply lime generously, monitor crop growth.",
    stronglyAlkaline |-> "Strongly alkaline soil. Consider gypsum or acidifying organic matter.",
    extremelyDry     |-> "Extremely dry soil. Use mulching and drip irrigation to conserve water.",
    rootRot          |-> "Excess water can cause root rot. Improve drainage or raised beds.",
    coldStress       |-> "Severe cold stress. Use row covers or greenhouses for sensitive crops.",
    heatStress       |-> "Heat stress likely. Use shade nets and frequent irrigation.",
    nutrient         |-> "Nutrient availability may be limited. Conduct soil NPK test.",
    pest             |-> "High humidity and heat can increase pest/fungal disease risk. Monitor closely and consider IPM strategies.",
    crop             |-> "Conditions are optimal for crops like wheat, rice, maize, and vegetables." ]

\* Mutant: the acidic test written with <=.
BasicPh_AcidicAtSix(p) ==
  IF Le(p, 60) THEN <<Messages.acidic>>
  ELSE IF Gt(p, 80) THEN <<Messages.alkaline>>
  ELSE <<Messages.optimal>>

BasicPh(p) ==
  IF Lt(p, 60) THEN <<Messages.acidic>>
  ELSE IF Gt(p, 80) THEN <<Messages.alkaline>>
  ELSE <<Messages.optimal>>

\* Mutant: the wet test written with >=.
BasicMoisture_WetAtSeventy(m) ==
  IF Lt(m, 30) THEN <<Messages.dry>>
  ELSE IF Ge(m, 70) THEN <<Messages.wet>>
  ELSE <<Messages.good>>

BasicMoisture(m) ==
  IF Lt(m, 30) THEN <<Messages.dry>>
  ELSE IF Gt(m, 70) THEN <<Messages.wet>>
  ELSE <<Messages.good>>

BasicTemperature(t) ==
  IF IsDefined(t)
  THEN IF Lt(t, 15) THEN <<Messages.low>>
       ELSE IF Gt(t, 35) THEN <<Messages.high>>
       ELSE <<Messages.favorable>>
  ELSE <<>>

\* Mutant: the very-acidic test written with <=.
AdvancedPh_AtBound(p) ==
  IF Le(p, 55) THEN <<Messages.veryAcidic>>
  ELSE IF Gt(p, 85) THEN <<Messages.stronglyAlkaline>>
  ELSE <<>>

AdvancedPh(p) ==
  IF Lt(p, 55) THEN <<Messages.veryAcidic>>
  ELSE IF Gt(p, 85) THEN <<Messages.stronglyAlkaline>>
  ELSE <<>>

\* Mutant: the extremely-dry test reuses the basic threshold 30.
AdvancedMoisture_BasicThreshold(m) ==
  IF Lt(m, 30) THEN <<Messages.extremelyDry>>
  ELSE IF Gt(m, 80) THEN <<Messages.rootRot>>
  ELSE <<>>

AdvancedMoisture(m) ==
  IF Lt(m, 20) THEN <<Messages.extremelyDry>>
  ELSE IF Gt(m, 80) THEN <<Messages.rootRot>>
  ELSE <<>>

\* Mutant: the cold test written as !(temperature >= 10), which is true of
\* undefined.
AdvancedTemperature_Negated(t) ==
  IF ~Ge(t, 10) THEN <<Messages.coldStress>>
  ELSE IF Gt(t, 40) THEN <<Messages.heatStress>>
  ELSE <<>>

AdvancedTemperature(t) ==
  IF Lt(t, 10) THEN <<Messages.coldStress>>
  ELSE IF Gt(t, 40) THEN <<Messages.heatStress>>
  ELSE <<>>

\* Mutant: the two comparisons with their directions exchanged.
NutrientAvailability_Inside(p) ==
  IF Gt(p, 60) \/ Lt(p, 80) THEN <<Messages.nutrient>> ELSE <<>>

\* Mutant: the alkaline side takes the advanced threshold 8.5.
NutrientAvailability_AdvancedThreshold(p) ==
  IF Lt(p, 60) \/ Gt(p, 85) THEN <<Messages.nutrient>> ELSE <<>>

NutrientAvailability(p) ==
  IF Lt(p, 60) \/ Gt(p, 80) THEN <<Messages.nutrient>> ELSE <<>>

\* Mutant: the humid-heat test written with >= 30.
PestRisk_AtThirty(m, t) ==
  IF (Gt(m, 70) /\ Ge(t, 30)) \/ Gt(t, 35) THEN <<Messages.pest>> ELSE <<>>

PestRisk(m, t) ==
  IF (Gt(m, 70) /\ Gt(t, 30)) \/ Gt(t, 35) THEN <<Messages.pest>> ELSE <<>>

\* Mutant: the upper pH bound taken from the basic check (8 for 7.5).
CropTips_UpToEight(p, m) ==
  IF Ge(p, 60) /\ Le(p, 80) /\ Ge(m, 30) /\ Le(m, 70)
  THEN <<Messages.crop>> ELSE <<>>

CropTips(p, m) ==
  IF Ge(p, 60) /\ Le(p, 75) /\ Ge(m, 30) /\ Le(m, 70)
  THEN <<Messages.crop>> ELSE <<>>

\* Mutant: the scientific checks run before the advanced ones.
ruleEngine_ScientificFirst(p, m, t) ==
  BasicPh(p) \o BasicMoisture(m) \o BasicTemperature(t)
    \o NutrientAvailability(p) \o PestRisk(m, t) \o CropTips(p, m)
    \o AdvancedPh(p) \o AdvancedMoisture(m) \o AdvancedTemperature(t)

ruleEngine(p, m, t) ==
  BasicPh(p) \o BasicMoisture(m) \o BasicTemperature(t)
    \o AdvancedPh(p) \o AdvancedMoisture(m) \o AdvancedTemperature(t)
    \o NutrientAvailability(p) \o PestRisk(m, t) \o CropTips(p, m)

----------------------------------------------------------------------------
(* Inputs: every threshold of the code is a multiple of 5 in the model's   *)
(* units, so the grid holds each multiple of 5 and its two neighbours.     *)
(* A pH or moisture reading that does not convert to a number compares as  *)
(* NaN.                                                                    *)

NearFive(n) == n % 5 \in {0, 1, 4}

PhValues ==
  {Num(n) : n \in {k \in MinPh10..MaxPh10 : NearFive(k)}} \cup {NaN}

MoistureValues ==
  {Num(n) : n \in {k \in MinMoisture..MaxMoisture : NearFive(k)}} \cup {NaN}

\* A temperature is a number, missing from the request (undefined) or null.
TemperatureValues ==
  {Num(n) : n \in {k \in (0 - BelowZero)..MaxTemperature : NearFive(k)}}
    \cup {Undefined, Null}

\* A string, and a value that is no string (undefined, a number, an object,
\* a function).
Str(s) == [type |-> "string", chars |-> s]
NonString(t) == [type |-> t, chars |-> <<>>]

\* No call of the conversation handler is under way.
ChatIdle ==
  /\ handler = "none"
  /\ messages = <<>>
  /\ completion = [kind |-> "none", answer |-> NonString("undefined")]
  /\ chatState = "idle"
  /\ chatValue = NonString("undefined")
  /\ prompts = <<>>

\* No response has been sent.
NoResponse ==
  [ status |-> "none", error |-> "", ruleEngine |-> <<>>,
    aiResponse |-> NonString("undefined") ]

\* No request to POST /recommend is under way.
RecommendIdle ==
  /\ recommender = "none"
  /\ desiredCrop = NonString("undefined")
  /\ response = NoResponse
  /\ events = <<>>

\* No request to POST /chat is under way and the tables are empty.
RouteIdle ==
  /\ chat_sessions = <<>>
  /\ ai_chats = <<>>
  /\ requests = <<>>

\* The tables orders, users and lands are empty and no request on them is
\* under way.
DbIdle ==
  /\ orders = <<>>
  /\ orderRequests = <<>>
  /\ users = {}
  /\ lands = {}
  /\ deleteRequests = <<>>
  /\ passwordRequests = <<>>
  /\ landRequests = <<>>
  /\ historyRequests = <<>>

Init ==
  /\ ph \in PhValues
  /\ moisture \in MoistureValues
  /\ temperature \in TemperatureValues
  /\ engine = "none"
  /\ recommendations = <<>>
  /\ ChatIdle
  /\ RecommendIdle
  /\ RouteIdle
  /\ DbIdle

\* One call of the early rule engine.
CallRuleEngineBasic ==
  /\ engine = "none"
  /\ engine' = "basic"
  /\ recommendations' = ruleEngineBasic(ph, moisture, temperature)
  /\ UNCHANGED <<ph, moisture, temperature>>
  /\ UNCHANGED <<chatVars, recVars, routeVars, dbVars>>

\* One call of the progressive rule engine.
CallRuleEngine ==
  /\ engine = "none"
  /\ engine' = "progressive"
  /\ recommendations' = ruleEngine(ph, moisture, temperature)
  /\ UNCHANGED <<ph, moisture, temperature>>
  /\ UNCHANGED <<chatVars, recVars, routeVars, dbVars>>

Next == CallRuleEngineBasic \/ CallRuleEngine

Spec == Init /\ [][Next]_vars

----------------------------------------------------------------------------
(* Strings: trim and toLowerCase. *)

LowerLetters ==
  << "a", "b", "c", "d", "e", "f", "g", "h", "i", "j", "k", "l", "m",
     "n", "o", "p", "q", "r", "s", "t", "u", "v", "w", "x", "y", "z" >>

UpperLetters ==
  << "A", "B", "C", "D", "E", "F", "G", "H", "I", "J", "K", "L", "M",
     "N", "O", "P", "Q", "R", "S", "T", "U", "V", "W", "X", "Y", "Z" >>

WhiteSpace == {" ", "\t", "\n"}

Range(f) == {f[i] : i \in DOMAIN f}

LowerOf(c) ==
  IF c \in Range(UpperLetters)
  THEN LowerLetters[CHOOSE i \in DOMAIN UpperLetters : UpperLetters[i] = c]
  ELSE c

UpperOf(c) ==
  IF c \in Range(LowerLetters)
  THEN UpperLetters[CHOOSE i \in DOMAIN LowerLetters : LowerLetters[i] = c]
  ELSE c

\* String.prototype.toLowerCase
ToLowerCase(s) == [i \in DOMAIN s |-> LowerOf(s[i])]

\* String.prototype.trim: white space is removed at both ends only.
Trim(s) ==
  LET kept == {i \in DOMAIN s : s[i] \notin WhiteSpace}
  IN IF kept = {} THEN <<>>
     ELSE LET first == CHOOSE i \in kept : \A j \in kept : i <= j
              last == CHOOSE i \in kept : \A j \in kept : j <= i
          IN SubSeq(s, first, last)

\* Array.prototype.slice(-n): the last n elements, all of them when there
\* are fewer.
SliceLast(a, n) ==
  IF Len(a) <= n THEN a ELSE SubSeq(a, Len(a) - n + 1, Len(a))

\* A value in a condition: the empty string, undefined and null are falsy;
\* a non-empty string, an object and a function are truthy.
IsTruthy(v) ==
  CASE v.type = "string" -> v.chars # <<>>
    [] v.type \in {"undefined", "null"} -> FALSE
    [] OTHER -> TRUE

----------------------------------------------------------------------------
(* preassignedCommands.js *)

commands ==
  [ help     |-> "You can ask me about soil health, crop recommendations, pest management, and general agriculture advice.",
    whoAreYou |-> "I am AgroBot, your professional agriculture assistant. I provide guidance on crops, soil, and farming best practices.",
    hello    |-> "Hello! How can I assist you with your farm or garden today?",
    hi       |-> "Hi there! Ask me anything about agriculture.",
    thankYou |-> "You're welcome! Happy to help with your agricultural queries.",
    bye      |-> "Goodbye! Wishing you a successful harvest." ]

\* The keys of the command table, as typed.
KeyHelp == <<"h", "e", "l", "p">>
KeyWhoAreYou == <<"w", "h", "o", " ", "a", "r", "e", " ", "y", "o", "u">>
KeyHello == <<"h", "e", "l", "l", "o">>
KeyHi == <<"h", "i">>
KeyThankYou == <<"t", "h", "a", "n", "k", " ", "y", "o", "u">>
KeyBye == <<"b", "y", "e">>

CommandKeys == {KeyHelp, KeyWhoAreYou, KeyHello, KeyHi, KeyThankYou, KeyBye}

\* The table is an object literal, so a property read that finds no own key
\* goes on to Object.prototype: the all-lower-case names found there.
KeyConstructor == <<"c", "o", "n", "s", "t", "r", "u", "c", "t", "o", "r">>
KeyProto == <<"_", "_", "p", "r", "o", "t", "o", "_", "_">>

\* commands[key]
CommandsLookup(key) ==
  CASE key = KeyHelp -> Str(<<commands.help>>)
    [] key = KeyWhoAreYou -> Str(<<commands.whoAreYou>>)
    [] key = KeyHello -> Str(<<commands.hello>>)
    [] key = KeyHi -> Str(<<commands.hi>>)
    [] key = KeyThankYou -> Str(<<commands.thankYou>>)
    [] key = KeyBye -> Str(<<commands.bye>>)
    [] key = KeyConstructor -> NonString("function")
    [] key = KeyProto -> NonString("object")
    [] OTHER -> NonString("undefined")

\* Mutant: the key is trimmed but not lower-cased.
getPreassignedCommand_NoLowerCase(message) ==
  LET key == Trim(message.chars)
      found == CommandsLookup(key)
  IN IF IsTruthy(found) THEN found ELSE NonString("null")

\* getPreassignedCommand(message) for a string message.
getPreassignedCommand(message) ==
  LET key == ToLowerCase(Trim(message.chars))
      found == CommandsLookup(key)
  IN IF IsTruthy(found) THEN found ELSE NonString("null")

----------------------------------------------------------------------------
(* perplexity-chat-handler.js: queryPerplexityAI and askPerplexityChat. *)

AI_PERSONALITY_DESCRIPTION ==
  "\nYou are a professional and easy-to-understand agriculture AI.\nProvide concise, accurate, and friendly guidance for farmers and students.\nAlways keep answers simple, clear, and practical.\n"

getAIPersonality == AI_PERSONALITY_DESCRIPTION

FallbackChat == Str(<<"AI failed to respond">>)

NoMessages == Str(<<"No messages provided">>)

\* What the completion collaborator does when asked: the request fails
\* ("network"), the response carries no readable body ("malformed"), or the
\* body is read and its answer field holds the value answer ("ok"; undefined
\* when the field is missing).  A non-string answer stands for a truthy one
\* (a non-zero number, an object).
Completions ==
  { [kind |-> "network", answer |-> NonString("undefined")],
    [kind |-> "malformed", answer |-> NonString("undefined")],
    [kind |-> "ok", answer |-> NonString("undefined")],
    [kind |-> "ok", answer |-> Str(<<>>)],
    [kind |-> "ok", answer |-> Str(<<" ", "\n">>)],
    [kind |-> "ok", answer |-> NonString("number")],
    [kind |-> "ok", answer |-> Str(<<" ", "A", "d", "d", " ", "l", "i", "m", "e", ".", "\n">>)] }

\* queryPerplexityAI(prompt, 100): every failure inside it is caught and
\* turned into the fallback text; a falsy answer gives the fallback text too.
queryPerplexityAI(c) ==
  IF c.kind # "ok" THEN FallbackChat
  ELSE IF IsTruthy(c.answer) THEN c.answer
  ELSE FallbackChat

\* `${m.role === "user" ? "User" : "AI"}: ${m.content}`
Render(m) ==
  <<(IF m.role = "user" THEN "User" ELSE "AI"), ": ">> \o m.content.chars

Instruction(version) ==
  IF version = "axios"
  THEN "\nAI (reply max 100 tokens, aim ~30 tokens):"
  ELSE "\nAI (reply max 100 tokens, avg ~30 tokens):"

\* Mutant: five prior turns are kept next to the newest message (slice(-6)).
BuildPrompt_SixLines(version, msgs) ==
  LET last5Messages == SliceLast(msgs, 6)
  IN [ personality |-> getAIPersonality,
       heading |-> "\nChat History:\n",
       history |-> [i \in DOMAIN last5Messages |-> Render(last5Messages[i])],
       instruction |-> Instruction(version) ]

\* The prompt: the personality, the heading, the rendered lines in order
\* (joined by line feeds), and the closing instruction.
BuildPrompt(version, msgs) ==
  LET last5Messages == SliceLast(msgs, 5)
  IN [ personality |-> getAIPersonality,
       heading |-> "\nChat History:\n",
       history |-> [i \in DOMAIN last5Messages |-> Render(last5Messages[i])],
       instruction |-> Instruction(version) ]

Return(v, ps) == [threw |-> FALSE, value |-> v, prompts |-> ps]
Throw(ps) == [threw |-> TRUE, value |-> NonString("undefined"), prompts |-> ps]

\* The try block of askPerplexityChat.  A TypeError is thrown by the read of
\* the last message of an empty list, by trim on a content that is no
\* string, and by trim on a reply that is no string.
askPerplexityChatTry(version, msgs, c) ==
  IF version = "axios" /\ Len(msgs) = 0 THEN Return(NoMessages, <<>>)
  ELSE IF Len(msgs) = 0 THEN Throw(<<>>)
  ELSE
    LET userMessage == msgs[Len(msgs)].content
    IN IF userMessage.type # "string" THEN Throw(<<>>)
       ELSE
         LET commandResponse == getPreassignedCommand(userMessage)
             aiPrompt == BuildPrompt(version, msgs)
             aiReply == queryPerplexityAI(c)
         IN IF IsTruthy(commandResponse) THEN Return(commandResponse, <<>>)
            ELSE IF aiReply.type # "string" THEN Throw(<<aiPrompt>>)
            ELSE Return(Str(Trim(aiReply.chars)), <<aiPrompt>>)

\* Mutant: no catch around the body.
askPerplexityChat_NoCatch(version, msgs, c) ==
  askPerplexityChatTry(version, msgs, c)

\* askPerplexityChat(messages): the try block, and the catch that turns
\* anything thrown into the fallback text.
askPerplexityChat(version, msgs, c) ==
  LET r == askPerplexityChatTry(version, msgs, c)
  IN IF r.threw THEN Return(FallbackChat, r.prompts) ELSE r

----------------------------------------------------------------------------
(* Calls of the conversation handler. *)

Digits == <<"0", "1", "2", "3", "4", "5", "6", "7", "8", "9">>

\* The i-th prior turn: users and the assistant alternate, and every turn
\* has a content of its own.
PriorTurn(i) ==
  [ role |-> IF i % 2 = 1 THEN "user" ELSE "assistant",
    content |-> Str(<<"t", Digits[(i \div 10) + 1], Digits[(i % 10) + 1]>>) ]

PriorTurns(n) == [i \in 1..n |-> PriorTurn(i)]

Pad(k) == [i \in 1..k |-> " "]

Cased(s, casing) ==
  CASE casing = "upper" -> [i \in DOMAIN s |-> UpperOf(s[i])]
    [] casing = "capital" -> [i \in DOMAIN s |-> IF i = 1 THEN UpperOf(s[i]) ELSE s[i]]
    [] OTHER -> s

\* What users type: the command phrases and other phrases (one with a space
\* inside a command word, one that extends a command word, one that names a
\* property of every object, an empty one), in three casings, with white
\* space around.
Phrases ==
  CommandKeys \cup
    { <<>>,
      <<"p", "h">>,
      <<"h", "e", "l", "p", "s">>,
      <<"h", "e", "l", " ", "p">>,
      KeyConstructor }

TypedMessages ==
  { Str(Pad(l) \o Cased(b, c) \o Pad(r)) :
      l \in 0..MaxPad, r \in 0..MaxPad, b \in Phrases,
      c \in {"lower", "upper", "capital"} }

\* The argument of a call: no message at all, or the prior turns followed by
\* the newest message, whose content is typed text or no string.
ChatInputs ==
  {<<>>} \cup
    { PriorTurns(n) \o <<[role |-> "user", content |-> m]>> :
        n \in 0..MaxHistory, m \in TypedMessages \cup {NonString("number")} }

\* No call of the rule engine is under way.
RuleIdle ==
  /\ ph = NaN
  /\ moisture = NaN
  /\ temperature = Undefined
  /\ engine = "none"
  /\ recommendations = <<>>

InitChat ==
  /\ RuleIdle
  /\ RecommendIdle
  /\ RouteIdle
  /\ DbIdle
  /\ handler = "none"
  /\ messages \in ChatInputs
  /\ completion \in Completions
  /\ chatState = "idle"
  /\ chatValue = NonString("undefined")
  /\ prompts = <<>>

CallChat(version) ==
  LET r == askPerplexityChat(version, messages, completion)
  IN /\ handler = "none"
     /\ handler' = version
     /\ chatState' = IF r.threw THEN "raised" ELSE "returned"
     /\ chatValue' = r.value
     /\ prompts' = r.prompts
     /\ UNCHANGED <<messages, completion>>
     /\ UNCHANGED <<ruleVars, recVars, routeVars, dbVars>>

\* One call of askPerplexityChat of perplexity-chat-handler.js.
CallAskPerplexityChat == CallChat("axios")

\* One call of the earlier askPerplexityChat.
CallAskPerplexityChatFetch == CallChat("fetch")

NextChat == CallAskPerplexityChat \/ CallAskPerplexityChatFetch

SpecChat == InitChat /\ [][NextChat]_vars

----------------------------------------------------------------------------
(* askPerplexityRecommend, three versions: "personality" and "plain" of     *)
(* perplexity-recommend-handler.js (fetch, data.answer), and "client" at    *)
(* the end of perplexity-chat-handler.js (Perplexity client,                *)
(* response.choices[0].message.content).  For the client version the        *)
(* answer of a completion is that content.                                  *)

FallbackRecommend == Str(<<"AI failed to provide a recommendation.">>)

\* The prompt of a recommendation: the readings and the desired crop, which
\* defaults to "any suitable crop" when it is falsy.
RecommendPrompt(version, params) ==
  [ version |-> version,
    ph |-> params.ph,
    moisture |-> params.moisture,
    temperature |-> params.temperature,
    desiredCrop |-> IF IsTruthy(params.desiredCrop) THEN params.desiredCrop
                    ELSE Str(<<"any suitable crop">>) ]

\* The try block.  With fetch: data.answer?.trim() || fallback, where reading
\* the body may throw and trim throws on an answer that is no string.  With
\* the client: content.trim(), which throws on a missing content and on one
\* that is no string, and is returned as it is otherwise.
askPerplexityRecommendTry(version, params, c) ==
  LET prompt == RecommendPrompt(version, params)
      trimmed == Str(Trim(c.answer.chars))
  IN IF c.kind # "ok" THEN Throw(<<prompt>>)
     ELSE IF version = "client"
       THEN IF c.answer.type # "string" THEN Throw(<<prompt>>)
            ELSE Return(trimmed, <<prompt>>)
     ELSE IF c.answer.type \in {"undefined", "null"}
       THEN Return(FallbackRecommend, <<prompt>>)
     ELSE IF c.answer.type # "string" THEN Throw(<<prompt>>)
     ELSE IF IsTruthy(trimmed) THEN Return(trimmed, <<prompt>>)
     ELSE Return(FallbackRecommend, <<prompt>>)

\* askPerplexityRecommend(params): the try block and the catch that returns
\* the fallback text.
askPerplexityRecommend(version, params, c) ==
  LET r == askPerplexityRecommendTry(version, params, c)
  IN IF r.threw THEN Return(FallbackRecommend, r.prompts) ELSE r

----------------------------------------------------------------------------
(* POST /recommend *)

\* v == null
IsNullish(v) == v.type \in {"undefined", "null"}

\* Mutant: the validation written as !ph || !moisture.
MissingSoilData_Falsy(p, m) ==
  \/ IsNullish(p) \/ p = Num(0) \/ p = NaN
  \/ IsNullish(m) \/ m = Num(0) \/ m = NaN

\* ph == null || moisture == null
MissingSoilData(p, m) == IsNullish(p) \/ IsNullish(m)

\* The request body.
RecommendPhValues == {Undefined, Null, NaN} \cup {Num(n) : n \in {0, 50, 65}}
RecommendMoistureValues == {Undefined, Null} \cup {Num(n) : n \in {0, 50, 85}}
RecommendTemperatureValues == {Undefined, Null} \cup {Num(n) : n \in {0, 25, 41}}
DesiredCrops == {NonString("undefined"), Str(<<>>), Str(<<"w", "h", "e", "a", "t">>)}

InitRecommend ==
  /\ ph \in RecommendPhValues
  /\ moisture \in RecommendMoistureValues
  /\ temperature \in RecommendTemperatureValues
  /\ engine = "none"
  /\ recommendations = <<>>
  /\ handler = "none"
  /\ messages = <<>>
  /\ completion \in Completions
  /\ chatState = "idle"
  /\ chatValue = NonString("undefined")
  /\ prompts = <<>>
  /\ recommender = "none"
  /\ desiredCrop \in DesiredCrops
  /\ response = NoResponse
  /\ events = <<>>
  /\ RouteIdle
  /\ DbIdle

\* Mutant: the collaborator is asked first, and the rule output is dropped
\* when the collaborator fails.
PostRecommend_AiFirst(version) ==
  LET params == [ph |-> ph, moisture |-> moisture, temperature |-> temperature,
                 desiredCrop |-> desiredCrop]
      ruleResponse == ruleEngine(ph, moisture, temperature)
      ai == askPerplexityRecommend(version, params, completion)
  IN /\ recommender = "none"
     /\ recommender' = version
     /\ IF MissingSoilData(ph, moisture)
        THEN /\ response' = [NoResponse EXCEPT !.status = "400",
                               !.error = "Soil pH and moisture required"]
             /\ UNCHANGED <<engine, recommendations, prompts, events>>
        ELSE /\ engine' = "progressive"
             /\ recommendations' = ruleResponse
             /\ prompts' = ai.prompts
             /\ events' = <<"askPerplexityRecommend", "ruleEngine">>
             /\ response' =
                  [NoResponse EXCEPT !.status = "200",
                     !.ruleEngine = IF completion.kind = "ok" THEN ruleResponse
                                    ELSE <<>>,
                     !.aiResponse = ai.value]
     /\ UNCHANGED <<ph, moisture, temperature, desiredCrop, completion>>
     /\ UNCHANGED <<handler, messages, chatState, chatValue>>
     /\ UNCHANGED <<routeVars, dbVars>>

\* One request, handled with the given version of askPerplexityRecommend.
\* A call that raises is answered by the catch of the route with 500.
PostRecommend(version) ==
  LET params == [ph |-> ph, moisture |-> moisture, temperature |-> temperature,
                 desiredCrop |-> desiredCrop]
      ruleResponse == ruleEngine(ph, moisture, temperature)
      ai == askPerplexityRecommend(version, params, completion)
  IN /\ recommender = "none"
     /\ recommender' = version
     /\ IF MissingSoilData(ph, moisture)
        THEN /\ response' = [NoResponse EXCEPT !.status = "400",
                               !.error = "Soil pH and moisture required"]
             /\ UNCHANGED <<engine, recommendations, prompts, events>>
        ELSE /\ engine' = "progressive"
             /\ recommendations' = ruleResponse
             /\ prompts' = ai.prompts
             /\ events' = <<"ruleEngine", "askPerplexityRecommend">>
             /\ response' =
                  IF ai.threw
                  THEN [NoResponse EXCEPT !.status = "500", !.error = "Server error"]
                  ELSE [NoResponse EXCEPT !.status = "200",
                          !.ruleEngine = ruleResponse, !.aiResponse = ai.value]
     /\ UNCHANGED <<ph, moisture, temperature, desiredCrop, completion>>
     /\ UNCHANGED <<handler, messages, chatState, chatValue>>
     /\ UNCHANGED <<routeVars, dbVars>>

PostRecommendPersonality == PostRecommend("personality")

PostRecommendPlain == PostRecommend("plain")

PostRecommendClient == PostRecommend("client")

NextRecommend ==
  PostRecommendPersonality \/ PostRecommendPlain \/ PostRecommendClient

SpecRecommend == InitRecommend /\ [][NextRecommend]_vars

----------------------------------------------------------------------------
(* POST /chat *)

Users == {"u1", "u2"}

RequestIds == {1, 2}

\* Array.prototype.slice(0, n), the effect of LIMIT n on an ordered result.
Limit(a, n) == IF Len(a) <= n THEN a ELSE SubSeq(a, 1, n)

\* The rows of ai_chats of a user, ordered by timestamp: rows are stamped
\* when inserted, so this is the order of insertion.
ChatRowsOf(table, u) == SelectSeq(table, LAMBDA row : row.user_id = u)

\* SELECT sender, message FROM ai_chats WHERE user_id=? ORDER BY timestamp
\* ASC LIMIT 5
SelectHistoryRows(table, u) == Limit(ChatRowsOf(table, u), 5)

\* The session ids of the rows of chat_sessions of a user with ended_at NULL.
ActiveSessions(table, u) ==
  {table[i].session_id : i \in {j \in DOMAIN table :
      table[j].user_id = u /\ ~table[j].ended}}

\* INSERT INTO chat_sessions (user_id) VALUES (?): the new row takes the next
\* id and has no ended_at.
InsertSession(table, u) ==
  Append(table, [session_id |-> Len(table) + 1, user_id |-> u, ended |-> FALSE])

\* INSERT INTO ai_chats (session_id, user_id, message, sender)
InsertChat(table, sid, u, msg, who) ==
  Append(table, [session_id |-> sid, user_id |-> u, message |-> msg, sender |-> who])

\* historyRows.map(...) followed by the push of the current message.
MessagesForAI(historyRows, message) ==
  [i \in DOMAIN historyRows |->
     [ role |-> IF historyRows[i].sender = "user" THEN "user" ELSE "assistant",
       content |-> historyRows[i].message ]]
    \o <<[role |-> "user", content |-> message]>>

\* The messages of the requests: a command and a question.
RouteMessages == {Str(KeyHi), Str(<<"p", "h">>)}

\* What the collaborator does for a request: it fails or it answers.
RouteCompletions ==
  { [kind |-> "network", answer |-> NonString("undefined")],
    [kind |-> "ok", answer |-> Str(<<"A", "d", "d", " ", "l", "i", "m", "e", ".">>)] }

\* The n rows stored for a user by earlier requests under session sid: the
\* user's message and the assistant's answer alternate.
StoredRows(n, sid, u) ==
  [i \in 1..n |->
     [ session_id |-> sid, user_id |-> u, message |-> PriorTurn(i).content,
       sender |-> IF i % 2 = 1 THEN "user" ELSE "ai" ]]

\* A request; added lists the rows of ai_chats its INSERT statements have
\* written so far.
NewRequest(u, msg) ==
  [ pc |-> "start", userId |-> u, message |-> msg, rows |-> <<>>,
    sessionId |-> 0, historyRows |-> <<>>,
    aiResponse |-> NonString("undefined"), status |-> "none",
    added |-> <<>> ]

\* Two requests have arrived.  User u1 has n stored rows, and an active
\* session when n > 0; user u2 has none.
InitRoute ==
  /\ RuleIdle
  /\ ChatIdle
  /\ RecommendIdle
  /\ DbIdle
  /\ \E n \in 0..MaxStored :
       /\ chat_sessions = IF n = 0 THEN <<>> ELSE InsertSession(<<>>, "u1")
       /\ ai_chats = StoredRows(n, 1, "u1")
  /\ \E u \in Users, m1 \in RouteMessages, m2 \in RouteMessages :
       requests = <<NewRequest("u1", m1), NewRequest(u, m2)>>

\* A step of the route leaves everything outside the route alone.
RouteFrame == UNCHANGED <<ruleVars, chatVars, recVars, dbVars>>

\* The request is answered.
Respond(r, code) ==
  requests' = [requests EXCEPT ![r].pc = "done", ![r].status = code]

\* SELECT session_id FROM chat_sessions WHERE user_id=? AND ended_at IS
\* NULL LIMIT 1: no row, or one of the active sessions of the user.
SelectSession(r) ==
  LET req == requests[r]
      active == ActiveSessions(chat_sessions, req.userId)
  IN /\ req.pc = "start"
     /\ \E found \in (IF active = {} THEN {<<>>} ELSE {<<sid>> : sid \in active}) :
          requests' = [requests EXCEPT ![r].pc = "session", ![r].rows = found]
     /\ UNCHANGED <<chat_sessions, ai_chats>>
     /\ RouteFrame

\* rows.length === 0: the session is created.
CreateSession(r) ==
  LET req == requests[r]
  IN /\ req.pc = "session"
     /\ req.rows = <<>>
     /\ chat_sessions' = InsertSession(chat_sessions, req.userId)
     /\ requests' = [requests EXCEPT ![r].pc = "history",
                       ![r].sessionId = Len(chat_sessions) + 1]
     /\ UNCHANGED ai_chats
     /\ RouteFrame

\* The history is read: after the insert of a session, or right after the
\* select that found one.
SelectHistory(r) ==
  LET req == requests[r]
      found == req.pc = "session" /\ req.rows # <<>>
  IN /\ req.pc = "history" \/ found
     /\ requests' = [requests EXCEPT ![r].pc = "saveUser",
                       ![r].sessionId = IF found THEN req.rows[1] ELSE req.sessionId,
                       ![r].historyRows = SelectHistoryRows(ai_chats, req.userId)]
     /\ UNCHANGED <<chat_sessions, ai_chats>>
     /\ RouteFrame

\* The message of the user is stored.
InsertUserMessage(r) ==
  LET req == requests[r]
  IN /\ req.pc = "saveUser"
     /\ ai_chats' = InsertChat(ai_chats, req.sessionId, req.userId, req.message, "user")
     /\ requests' = [requests EXCEPT ![r].pc = "ask",
                       ![r].added = Append(req.added, ai_chats'[Len(ai_chats')])]
     /\ UNCHANGED chat_sessions
     /\ RouteFrame

\* askPerplexityChat(messagesForAI)
AskChat(r) ==
  LET req == requests[r]
  IN /\ req.pc = "ask"
     /\ \E c \in RouteCompletions :
          LET ai == askPerplexityChat("axios",
                      MessagesForAI(req.historyRows, req.message), c)
          IN IF ai.threw
             THEN Respond(r, "500")
             ELSE requests' = [requests EXCEPT ![r].pc = "saveAi",
                                 ![r].aiResponse = ai.value]
     /\ UNCHANGED <<chat_sessions, ai_chats>>
     /\ RouteFrame

\* Mutant: the answer is sent and not stored.
InsertAiResponse_NotStored(r) ==
  LET req == requests[r]
  IN /\ req.pc = "saveAi"
     /\ requests' = [requests EXCEPT ![r].pc = "done", ![r].status = "200"]
     /\ UNCHANGED <<chat_sessions, ai_chats>>
     /\ RouteFrame

\* The answer is stored and sent.
InsertAiResponse(r) ==
  LET req == requests[r]
  IN /\ req.pc = "saveAi"
     /\ ai_chats' = InsertChat(ai_chats, req.sessionId, req.userId, req.aiResponse, "ai")
     /\ requests' = [requests EXCEPT ![r].pc = "done", ![r].status = "200",
                       ![r].added = Append(req.added, ai_chats'[Len(ai_chats')])]
     /\ UNCHANGED chat_sessions
     /\ RouteFrame

\* A query fails: the catch of the route answers 500.
QueryFails(r) ==
  /\ requests[r].pc \in {"start", "session", "history", "saveUser", "saveAi"}
  /\ Respond(r, "500")
  /\ UNCHANGED <<chat_sessions, ai_chats>>
  /\ RouteFrame

NextRoute ==
  \E r \in RequestIds :
    \/ SelectSession(r)
    \/ CreateSession(r)
    \/ SelectHistory(r)
    \/ InsertUserMessage(r)
    \/ AskChat(r)
    \/ InsertAiResponse(r)
    \/ QueryFails(r)

SpecRoute == InitRoute /\ [][NextRoute]_vars

----------------------------------------------------------------------------
(* POST /api/users/:userId/orders.  A connection runs one transaction: the *)
(* rows a request inserts are held by its transaction (pending) and reach  *)
(* the table orders when the transaction commits.  Every await of the      *)
(* handler is one action.                                                  *)

\* The longest list of items of a request.
MaxItems == 2

Products ==
  { [name |-> "seed", qty |-> 2, price |-> 30],
    [name |-> "urea", qty |-> 1, price |-> 50] }

\* The lists of at most n items.
ItemLists(n) == UNION {[1..k -> Products] : k \in 0..n}

\* req.body.items: missing, or a list.
ItemsOfBody ==
  {[present |-> FALSE, list |-> <<>>]} \cup
    {[present |-> TRUE, list |-> l] : l \in ItemLists(MaxItems)}

\* !items || !items.length
NoOrderItems(items) == ~items.present \/ Len(items.list) = 0

\* The row inserted for one item; item_total is qty * price.
OrderRow(u, item) ==
  [ user_id |-> u, product_name |-> item.name, quantity |-> item.qty,
    unit_price |-> item.price, item_total |-> item.qty * item.price ]

NewOrder(u, items) ==
  [ pc |-> "start", userId |-> u, items |-> items, next |-> 1,
    connection |-> "none", transaction |-> "none", pending |-> <<>>,
    status |-> "none", error |-> "" ]

\* Two requests have arrived, one of each user.
InitOrders ==
  /\ RuleIdle
  /\ ChatIdle
  /\ RecommendIdle
  /\ RouteIdle
  /\ orders = <<>>
  /\ \E i1 \in ItemsOfBody, i2 \in ItemsOfBody :
       orderRequests = <<NewOrder("u1", i1), NewOrder("u2", i2)>>
  /\ users = {}
  /\ lands = {}
  /\ deleteRequests = <<>>
  /\ passwordRequests = <<>>
  /\ landRequests = <<>>
  /\ historyRequests = <<>>

\* A step of the orders route leaves everything else alone.
OrdersFrame ==
  UNCHANGED <<ruleVars, chatVars, recVars, routeVars, users, lands,
              deleteRequests, passwordRequests, landRequests, historyRequests>>

\* The validation, and db.getConnection() for a request that passes it.
GetConnection(r) ==
  LET req == orderRequests[r]
  IN /\ req.pc = "start"
     /\ orderRequests' =
          IF NoOrderItems(req.items)
          THEN [orderRequests EXCEPT ![r].pc = "done", ![r].status = "400",
                  ![r].error = "Order items required"]
          ELSE [orderRequests EXCEPT ![r].pc = "begin",
                  ![r].connection = "held"]
     /\ UNCHANGED orders
     /\ OrdersFrame

\* connection.beginTransaction()
BeginTransaction(r) ==
  /\ orderRequests[r].pc = "begin"
  /\ orderRequests' = [orderRequests EXCEPT ![r].pc = "insert",
                         ![r].transaction = "open"]
  /\ UNCHANGED orders
  /\ OrdersFrame

\* Mutant: the insert runs outside the transaction and is committed at once.
InsertOrder_Autocommit(r) ==
  LET req == orderRequests[r]
  IN /\ req.pc = "insert"
     /\ req.next <= Len(req.items.list)
     /\ orders' = Append(orders, OrderRow(req.userId, req.items.list[req.next]))
     /\ orderRequests' = [orderRequests EXCEPT ![r].next = req.next + 1]
     /\ OrdersFrame

\* One turn of the loop: the INSERT of the next item, inside the
\* transaction.
InsertOrder(r) ==
  LET req == orderRequests[r]
  IN /\ req.pc = "insert"
     /\ req.next <= Len(req.items.list)
     /\ orderRequests' =
          [orderRequests EXCEPT ![r].next = req.next + 1,
             ![r].pending =
               Append(req.pending, OrderRow(req.userId, req.items.list[req.next]))]
     /\ UNCHANGED orders
     /\ OrdersFrame

\* After the loop: connection.commit(), connection.release() and the 201
\* response.
CommitOrder(r) ==
  LET req == orderRequests[r]
  IN /\ req.pc = "insert"
     /\ req.next > Len(req.items.list)
     /\ orders' = orders \o req.pending
     /\ orderRequests' =
          [orderRequests EXCEPT ![r].pc = "done", ![r].transaction = "committed",
             ![r].pending = <<>>, ![r].connection = "released",
             ![r].status = "201"]
     /\ OrdersFrame

\* The catch block of the handler.  Its first statement reads the name
\* connection, which is declared with const inside the try block and is
\* not in scope in the catch block (nor anywhere outside it): the read
\* raises a ReferenceError, so neither rollback nor release nor the 500
\* response is reached, and the handler ends by raising.
CatchPlaceOrder(req) == [req EXCEPT !.pc = "raised"]

\* An awaited call of the try block rejects: getConnection,
\* beginTransaction, an INSERT or commit.
OrderQueryFails(r) ==
  LET req == orderRequests[r]
  IN /\ \/ req.pc = "start" /\ ~NoOrderItems(req.items)
        \/ req.pc \in {"begin", "insert"}
     /\ orderRequests' = [orderRequests EXCEPT ![r] = CatchPlaceOrder(req)]
     /\ UNCHANGED orders
     /\ OrdersFrame

NextOrders ==
  \E r \in RequestIds :
    \/ GetConnection(r)
    \/ BeginTransaction(r)
    \/ InsertOrder(r)
    \/ CommitOrder(r)
    \/ OrderQueryFails(r)

SpecOrders == InitOrders /\ [][NextOrders]_vars

----------------------------------------------------------------------------
(* POST /api/users/:userId/lands and PUT /api/users/:userId/lands/:landId. *)
(* The tables users and lands are sets of rows.  Of the optional fields of *)
(* a land the model keeps crop, ph, moisture and temperature; the code     *)
(* treats soil_type, light, other_info and the address fields as it treats *)
(* crop.                                                                   *)

\* x || null for a number, and for a text.
OrNull(v) == IF Truthy(v) THEN v ELSE Null
OrNullText(v) == IF IsTruthy(v) THEN v ELSE NonString("null")

\* A query parameter that is undefined is sent as NULL.
SqlValue(v) == IF v.type = "undefined" THEN Null ELSE v
SqlText(v) == IF v.type = "undefined" THEN NonString("null") ELSE v

Rice == Str(<<"r", "i", "c", "e">>)

\* req.body of the two routes.
LandBodies ==
  [ land_name : {NonString("undefined"), Str(<<"e", "a", "s", "t">>)},
    size : {Undefined, Num(0), Num(2)},
    crop : {NonString("undefined"), Str(<<>>), Rice},
    ph : {Undefined, Null, Num(0), Num(65)},
    moisture : {Undefined, Num(0), Num(40)},
    temperature : {Undefined, Num(0), Num(25)} ]

\* The row written by the INSERT of the first route.
InsertedLand(id, u, b) ==
  [ id |-> id, user_id |-> u, land_name |-> b.land_name, size |-> b.size,
    crop |-> OrNullText(b.crop), ph |-> OrNull(b.ph),
    moisture |-> OrNull(b.moisture), temperature |-> OrNull(b.temperature) ]

\* The row written by the UPDATE of the second route.
UpdatedLand(id, u, b) ==
  [ id |-> id, user_id |-> u, land_name |-> SqlText(b.land_name),
    size |-> SqlValue(b.size),
    crop |-> OrNullText(b.crop), ph |-> OrNull(b.ph),
    moisture |-> OrNull(b.moisture), temperature |-> OrNull(b.temperature) ]

\* The tables before the requests: two users, user 1 with two lands and
\* user 2 with one.
InitialUsers ==
  { [user_id |-> 1, password |-> Str(<<"a">>)],
    [user_id |-> 2, password |-> Str(<<"a">>)] }

InitialLands ==
  LET b == [ land_name |-> Str(<<"w", "e", "s", "t">>), size |-> Num(1),
             crop |-> Rice, ph |-> Num(65), moisture |-> Num(40),
             temperature |-> Num(25) ]
  IN {InsertedLand(1, 1, b), InsertedLand(2, 1, b), InsertedLand(3, 2, b)}

\* The auto-increment id of the next row of lands.
NextLandId(table) ==
  1 + (CHOOSE m \in {0} \cup {row.id : row \in table} :
         \A row \in table : row.id <= m)

NewLandRequest(method, u, landId, b) ==
  [ pc |-> "start", method |-> method, userId |-> u, landId |-> landId,
    body |-> b, insertId |-> 0, status |-> "none" ]

\* One request has arrived: an addition, or an update of a land of the
\* user (land 1) or of a land the user does not have (land 3).
InitLands ==
  /\ RuleIdle
  /\ ChatIdle
  /\ RecommendIdle
  /\ RouteIdle
  /\ orders = <<>>
  /\ orderRequests = <<>>
  /\ users = InitialUsers
  /\ lands = InitialLands
  /\ deleteRequests = <<>>
  /\ passwordRequests = <<>>
  /\ \E b \in LandBodies :
       \/ landRequests = <<NewLandRequest("POST", 1, 0, b)>>
       \/ \E id \in {1, 3} : landRequests = <<NewLandRequest("PUT", 1, id, b)>>
  /\ historyRequests = <<>>

LandsFrame ==
  UNCHANGED <<ruleVars, chatVars, recVars, routeVars, orders, orderRequests,
              users, deleteRequests, passwordRequests, historyRequests>>

\* POST: the validation and the INSERT.
AddLand ==
  LET req == landRequests[1]
      b == req.body
  IN /\ req.pc = "start"
     /\ req.method = "POST"
     /\ IF ~IsTruthy(b.land_name) \/ ~Truthy(b.size)
        THEN /\ landRequests' = [landRequests EXCEPT ![1].pc = "done",
                                   ![1].status = "400"]
             /\ UNCHANGED lands
        ELSE /\ lands' = lands \cup {InsertedLand(NextLandId(lands), req.userId, b)}
             /\ landRequests' = [landRequests EXCEPT ![1].pc = "done",
                                   ![1].status = "201",
                                   ![1].insertId = NextLandId(lands)]
     /\ LandsFrame

\* PUT: the UPDATE of the row with the ids of the request.
UpdateLand ==
  LET req == landRequests[1]
      hit == {row \in lands : row.user_id = req.userId /\ row.id = req.landId}
  IN /\ req.pc = "start"
     /\ req.method = "PUT"
     /\ lands' = (lands \ hit) \cup
                   {UpdatedLand(row.id, row.user_id, req.body) : row \in hit}
     /\ landRequests' = [landRequests EXCEPT ![1].pc = "done",
                           ![1].status = IF hit = {} THEN "404" ELSE "200"]
     /\ LandsFrame

\* The query of either route fails: 500.
LandQueryFails ==
  LET req == landRequests[1]
      b == req.body
  IN /\ req.pc = "start"
     /\ req.method = "PUT" \/ (IsTruthy(b.land_name) /\ Truthy(b.size))
     /\ landRequests' = [landRequests EXCEPT ![1].pc = "done", ![1].status = "500"]
     /\ UNCHANGED lands
     /\ LandsFrame

NextLands == AddLand \/ UpdateLand \/ LandQueryFails

SpecLands == InitLands /\ [][NextLands]_vars

----------------------------------------------------------------------------
(* DELETE /api/users/:userId.  The DELETE statements of a request take     *)
(* effect on the tables when its transaction commits; a rollback drops     *)
(* them.  Every await of the handler is one action.                        *)

\* A step of a route on users leaves the other routes alone.
UsersFrame ==
  UNCHANGED <<ruleVars, chatVars, recVars, routeVars, orders, orderRequests,
              landRequests, historyRequests>>

\* userId is parseInt(req.params.userId, 10): the id of a user, of no user,
\* or NaN.
NewDelete(userId) ==
  [ pc |-> "start", userId |-> userId, connection |-> "none",
    transaction |-> "none", deletedLands |-> FALSE, deletedUser |-> FALSE,
    status |-> "none" ]

\* Two requests have arrived.
InitDelete ==
  /\ RuleIdle
  /\ ChatIdle
  /\ RecommendIdle
  /\ RouteIdle
  /\ orders = <<>>
  /\ orderRequests = <<>>
  /\ users = InitialUsers
  /\ lands = InitialLands
  /\ \E u1 \in {Num(1), Num(3), NaN}, u2 \in {Num(1), Num(2)} :
       deleteRequests = <<NewDelete(u1), NewDelete(u2)>>
  /\ passwordRequests = <<>>
  /\ landRequests = <<>>
  /\ historyRequests = <<>>

\* The request moves on and the tables stay as they are.
DeleteStep(r, req) ==
  /\ deleteRequests' = [deleteRequests EXCEPT ![r] = req]
  /\ UNCHANGED <<users, lands, passwordRequests>>
  /\ UsersFrame

\* isNaN(userId): 400.  Otherwise db.getConnection().
DeleteGetConnection(r) ==
  LET req == deleteRequests[r]
  IN /\ req.pc = "start"
     /\ DeleteStep(r, IF req.userId = NaN
                      THEN [req EXCEPT !.pc = "done", !.status = "400"]
                      ELSE [req EXCEPT !.pc = "begin", !.connection = "held"])

\* connection.beginTransaction()
DeleteBegin(r) ==
  /\ deleteRequests[r].pc = "begin"
  /\ DeleteStep(r, [deleteRequests[r] EXCEPT !.pc = "select",
                      !.transaction = "open"])

\* SELECT * FROM users WHERE user_id=?, and the test of users.length.
DeleteSelectUser(r) ==
  LET req == deleteRequests[r]
      found == {row \in users : row.user_id = req.userId.val}
  IN /\ req.pc = "select"
     /\ DeleteStep(r, [req EXCEPT !.pc = IF found = {} THEN "notFound"
                                         ELSE "deleteLands"])

\* No such user: rollback, 404, and the release of the finally block.
DeleteNotFound(r) ==
  /\ deleteRequests[r].pc = "notFound"
  /\ DeleteStep(r, [deleteRequests[r] EXCEPT !.pc = "done",
                      !.transaction = "rolledback", !.connection = "released",
                      !.status = "404"])

\* DELETE FROM lands WHERE user_id=?
DeleteLands(r) ==
  /\ deleteRequests[r].pc = "deleteLands"
  /\ DeleteStep(r, [deleteRequests[r] EXCEPT !.pc = "deleteUser",
                      !.deletedLands = TRUE])

\* DELETE FROM users WHERE user_id=?
DeleteUser(r) ==
  /\ deleteRequests[r].pc = "deleteUser"
  /\ DeleteStep(r, [deleteRequests[r] EXCEPT !.pc = "commit",
                      !.deletedUser = TRUE])

\* Mutant: the commit drops the user and keeps the lands.
DeleteCommit_UserOnly(r) ==
  LET req == deleteRequests[r]
  IN /\ req.pc = "commit"
     /\ users' = {row \in users : row.user_id # req.userId.val}
     /\ deleteRequests' = [deleteRequests EXCEPT ![r].pc = "done",
                             ![r].transaction = "committed",
                             ![r].connection = "released", ![r].status = "200"]
     /\ UNCHANGED <<lands, passwordRequests>>
     /\ UsersFrame

\* connection.commit(), the response, and the release of the finally block.
DeleteCommit(r) ==
  LET req == deleteRequests[r]
      gone(row) == row.user_id = req.userId.val
  IN /\ req.pc = "commit"
     /\ users' = IF req.deletedUser THEN {row \in users : ~gone(row)} ELSE users
     /\ lands' = IF req.deletedLands THEN {row \in lands : ~gone(row)} ELSE lands
     /\ deleteRequests' = [deleteRequests EXCEPT ![r].pc = "done",
                             ![r].transaction = "committed",
                             ![r].connection = "released", ![r].status = "200"]
     /\ UNCHANGED passwordRequests
     /\ UsersFrame

\* An awaited call of the try block rejects: the catch block is entered.
\* A rejection of db.getConnection() is outside the try block and ends the
\* handler with no connection taken.
DeleteQueryFails(r) ==
  LET req == deleteRequests[r]
  IN \/ /\ req.pc = "start"
        /\ req.userId # NaN
        /\ DeleteStep(r, [req EXCEPT !.pc = "raised"])
     \/ /\ req.pc \in {"begin", "select", "notFound", "deleteLands",
                       "deleteUser", "commit"}
        /\ DeleteStep(r, [req EXCEPT !.pc = "catch"])

\* The catch block: rollback, 500, and the release of the finally block.
DeleteCatch(r) ==
  /\ deleteRequests[r].pc = "catch"
  /\ DeleteStep(r, [deleteRequests[r] EXCEPT !.pc = "done",
                      !.transaction = "rolledback", !.connection = "released",
                      !.status = "500"])

\* The rollback of the catch block rejects: the handler ends by raising,
\* after the release of the finally block.
DeleteRollbackFails(r) ==
  /\ deleteRequests[r].pc = "catch"
  /\ DeleteStep(r, [deleteRequests[r] EXCEPT !.pc = "raised",
                      !.connection = "released"])

NextDelete ==
  \E r \in RequestIds :
    \/ DeleteGetConnection(r)
    \/ DeleteBegin(r)
    \/ DeleteSelectUser(r)
    \/ DeleteNotFound(r)
    \/ DeleteLands(r)
    \/ DeleteUser(r)
    \/ DeleteCommit(r)
    \/ DeleteQueryFails(r)
    \/ DeleteCatch(r)
    \/ DeleteRollbackFails(r)

SpecDelete == InitDelete /\ [][NextDelete]_vars

----------------------------------------------------------------------------
(* PUT /api/users/:userId/change-password.  The handler awaits two         *)
(* queries, the SELECT of the stored password and the UPDATE; each is one  *)
(* action, with the code that follows it up to the next await.             *)

NewPasswordChange(userId, old, new) ==
  [ pc |-> "start", userId |-> userId, oldPassword |-> old,
    newPassword |-> new, status |-> "none" ]

\* Two requests have arrived.  A password of the body is missing, or a text.
InitPassword ==
  /\ RuleIdle
  /\ ChatIdle
  /\ RecommendIdle
  /\ RouteIdle
  /\ orders = <<>>
  /\ orderRequests = <<>>
  /\ users = InitialUsers
  /\ lands = InitialLands
  /\ deleteRequests = <<>>
  /\ \E u1 \in {Num(1), Num(3), NaN}, u2 \in {Num(1), Num(2)},
        o1 \in {NonString("undefined"), Str(<<"a">>), Str(<<"b">>)},
        o2 \in {Str(<<"a">>), Str(<<"b">>)},
        n1 \in {NonString("undefined"), Str(<<"b">>)},
        n2 \in {Str(<<>>), Str(<<"c">>)} :
       passwordRequests = <<NewPasswordChange(u1, o1, n1),
                            NewPasswordChange(u2, o2, n2)>>
  /\ landRequests = <<>>
  /\ historyRequests = <<>>

\* The validation, the SELECT of the stored password, and the tests of its
\* result: 400, 404, 401, or the UPDATE is sent.
SelectPassword(r) ==
  LET req == passwordRequests[r]
      rows == {row \in users : row.user_id = req.userId.val}
      answer(code) == [req EXCEPT !.pc = "done", !.status = code]
  IN /\ req.pc = "start"
     /\ passwordRequests' =
          [passwordRequests EXCEPT ![r] =
             IF req.userId = NaN THEN answer("400")
             ELSE IF ~IsTruthy(req.oldPassword) \/ ~IsTruthy(req.newPassword)
               THEN answer("400")
             ELSE IF rows = {} THEN answer("404")
             ELSE IF \A row \in rows : req.oldPassword # row.password
               THEN answer("401")
             ELSE [req EXCEPT !.pc = "update"]]
     /\ UNCHANGED <<users, lands, deleteRequests>>
     /\ UsersFrame

\* UPDATE users SET password=? WHERE user_id=?, and the test of
\* affectedRows.
UpdatePassword(r) ==
  LET req == passwordRequests[r]
      rows == {row \in users : row.user_id = req.userId.val}
  IN /\ req.pc = "update"
     /\ users' = (users \ rows) \cup
                   {[row EXCEPT !.password = req.newPassword] : row \in rows}
     /\ passwordRequests' =
          [passwordRequests EXCEPT ![r].pc = "done",
             ![r].status = IF rows = {} THEN "404" ELSE "200"]
     /\ UNCHANGED <<lands, deleteRequests>>
     /\ UsersFrame

\* One of the two queries fails: 500.
PasswordQueryFails(r) ==
  LET req == passwordRequests[r]
  IN /\ \/ req.pc = "update"
        \/ /\ req.pc = "start"
           /\ req.userId # NaN
           /\ IsTruthy(req.oldPassword)
           /\ IsTruthy(req.newPassword)
     /\ passwordRequests' = [passwordRequests EXCEPT ![r].pc = "done",
                               ![r].status = "500"]
     /\ UNCHANGED <<users, lands, deleteRequests>>
     /\ UsersFrame

NextPassword ==
  \E r \in RequestIds :
    \/ SelectPassword(r)
    \/ UpdatePassword(r)
    \/ PasswordQueryFails(r)

SpecPassword == InitPassword /\ [][NextPassword]_vars

----------------------------------------------------------------------------
(* GET /api/chat/history/:userId and DELETE /api/chat/clear/:userId, next  *)
(* to the requests of POST /chat.  The history handler awaits two queries, *)
(* the page and the count; each is one action.                             *)

\* parseInt(text) || d, for the result v of parseInt.
ParsedOr(v, d) == IF Truthy(v) THEN v.val ELSE d

\* SELECT ... FROM ai_chats WHERE user_id=? ORDER BY chat_id ASC LIMIT ?
\* OFFSET ?: chat_id grows with every insert, so the order is that of the
\* table.
SelectPageRows(table, u, limit, offset) ==
  LET all == ChatRowsOf(table, u)
      last == IF offset + limit < Len(all) THEN offset + limit ELSE Len(all)
  IN SubSeq(all, offset + 1, last)

\* Mutant: offset + rows.length <= total
HasMore_Inclusive(offset, returned, total) == offset + returned <= total

\* offset + rows.length < totalRows[0].total
HasMore(offset, returned, total) == offset + returned < total

\* limit and offset are what parseInt made of the query string.
NewHistoryRequest(u, limit, offset) ==
  [ pc |-> "start", userId |-> u, limit |-> ParsedOr(limit, 10),
    offset |-> ParsedOr(offset, 0), rows |-> <<>>, hasMore |-> FALSE,
    status |-> "none" ]

\* A history request of user u1 has arrived, with a POST /chat request of
\* each user.  User u1 has n stored rows.
InitHistory ==
  /\ RuleIdle
  /\ ChatIdle
  /\ RecommendIdle
  /\ \E n \in 0..MaxStored :
       /\ chat_sessions = IF n = 0 THEN <<>> ELSE InsertSession(<<>>, "u1")
       /\ ai_chats = StoredRows(n, 1, "u1")
  /\ requests = <<NewRequest("u1", Str(<<"p", "h">>)), NewRequest("u2", Str(KeyHi))>>
  /\ orders = <<>>
  /\ orderRequests = <<>>
  /\ users = {}
  /\ lands = {}
  /\ deleteRequests = <<>>
  /\ passwordRequests = <<>>
  /\ landRequests = <<>>
  /\ \E limit \in {NaN, Num(0), Num(2)}, offset \in {NaN, Num(2), Num(5)} :
       historyRequests = <<NewHistoryRequest("u1", limit, offset)>>

HistoryFrame ==
  UNCHANGED <<ruleVars, chatVars, recVars, chat_sessions, requests, orders,
              orderRequests, users, lands, deleteRequests, passwordRequests,
              landRequests>>

\* The page query.
SelectPage ==
  LET req == historyRequests[1]
  IN /\ req.pc = "start"
     /\ historyRequests' =
          [historyRequests EXCEPT ![1].pc = "count",
             ![1].rows = SelectPageRows(ai_chats, req.userId, req.limit, req.offset)]
     /\ UNCHANGED ai_chats
     /\ HistoryFrame

\* SELECT COUNT(*) AS total FROM ai_chats WHERE user_id=?, and the response.
CountRows ==
  LET req == historyRequests[1]
      total == Len(ChatRowsOf(ai_chats, req.userId))
  IN /\ req.pc = "count"
     /\ historyRequests' =
          [historyRequests EXCEPT ![1].pc = "done", ![1].status = "200",
             ![1].hasMore = HasMore(req.offset, Len(req.rows), total)]
     /\ UNCHANGED ai_chats
     /\ HistoryFrame

\* One of the two queries fails: 500.
HistoryQueryFails ==
  /\ historyRequests[1].pc \in {"start", "count"}
  /\ historyRequests' = [historyRequests EXCEPT ![1].pc = "done",
                           ![1].status = "500"]
  /\ UNCHANGED ai_chats
  /\ HistoryFrame

\* DELETE /api/chat/clear/:userId: DELETE FROM ai_chats WHERE user_id=?
ClearChats ==
  /\ \E u \in Users :
       ai_chats' = SelectSeq(ai_chats, LAMBDA row : row.user_id # u)
  /\ UNCHANGED historyRequests
  /\ HistoryFrame

NextHistory ==
  \/ \E r \in RequestIds :
       \/ SelectSession(r)
       \/ CreateSession(r)
       \/ SelectHistory(r)
       \/ InsertUserMessage(r)
       \/ AskChat(r)
       \/ InsertAiResponse(r)
       \/ QueryFails(r)
  \/ SelectPage
  \/ CountRows
  \/ HistoryQueryFails
  \/ ClearChats

SpecHistory == InitHistory /\ [][NextHistory]_vars

----------------------------------------------------------------------------
(* Helpers of the properties. *)

Returned == engine # "none"

\* The message table of the engine that ran.
Msg == IF engine = "basic" THEN BasicMessages ELSE Messages

Has(m) == \E i \in DOMAIN recommendations : recommendations[i] = m

Count(S) == Cardinality({i \in DOMAIN recommendations : recommendations[i] \in S})

Progressive == engine = "progressive"

\* The reading of "x < k" and "x > k" in the statements below: a number by
\* its value, null as 0, and false of undefined and NaN.
Below(v, k) == (v.type = "number" /\ v.val < k) \/ (v.type = "null" /\ 0 < k)
Above(v, k) == (v.type = "number" /\ v.val > k) \/ (v.type = "null" /\ 0 > k)

BasicPhSet == {Msg.acidic, Msg.alkaline, Msg.optimal}
BasicMoistureSet == {Msg.dry, Msg.wet, Msg.good}
BasicTemperatureSet == {Msg.low, Msg.high, Msg.favorable}
AdvancedSet ==
  {Messages.veryAcidic, Messages.stronglyAlkaline, Messages.extremelyDry,
   Messages.rootRot, Messages.coldStress, Messages.heatStress}

----------------------------------------------------------------------------
(* Properties of the rule engine. *)

\* C1: after a call of either rule engine the first message is the acidic
\* one when ph < 6, the alkaline one when ph > 8 and the optimal one
\* otherwise (ph = 6 and ph = 8 included), and exactly one of the three basic
\* pH messages occurs in the whole output.
C1_BasicPhTier ==
  Returned =>
    /\ Len(recommendations) >= 1
    /\ recommendations[1] = (IF Below(ph, 60) THEN Msg.acidic
                             ELSE IF Above(ph, 80) THEN Msg.alkaline
                             ELSE Msg.optimal)
    /\ Count(BasicPhSet) = 1

\* The boundary ph = 8 has been evaluated by the progressive engine and gave
\* the optimal message.
C1_Witness ==
  Progressive /\ ph = Num(80) /\ recommendations[1] = Messages.optimal

\* C2: after a call of either rule engine the output holds exactly one basic
\* moisture message: dry when moisture < 30, wet when moisture > 70, and
\* good-range otherwise (moisture = 30 and moisture = 70 included).
C2_BasicMoistureTier ==
  Returned =>
    /\ Count(BasicMoistureSet) = 1
    /\ Has(IF Below(moisture, 30) THEN Msg.dry
           ELSE IF Above(moisture, 70) THEN Msg.wet
           ELSE Msg.good)

\* The boundary moisture = 70 has been evaluated and gave the good-range
\* message.
C2_Witness ==
  Progressive /\ moisture = Num(70) /\ Has(Messages.good)

\* C3: after a call of either rule engine the output holds no basic
\* temperature message if and only if temperature is undefined, and exactly
\* one for every other temperature value (0 and null included).
C3_TemperatureTierIffDefined ==
  Returned =>
    /\ (Count(BasicTemperatureSet) = 0) <=> (temperature = Undefined)
    /\ (temperature # Undefined) => (Count(BasicTemperatureSet) = 1)

\* C4: with temperature undefined the progressive engine can always
\* complete its call, and its output holds no temperature-dependent
\* message: no basic temperature message, no cold-stress or heat-stress
\* message and no pest warning, whatever ph and moisture are.
C4_AbsentTemperatureIsNoOp ==
  (temperature = Undefined) =>
    /\ (engine = "none") => ENABLED CallRuleEngine
    /\ Progressive =>
         /\ Count(BasicTemperatureSet) = 0
         /\ ~Has(Messages.coldStress)
         /\ ~Has(Messages.heatStress)
         /\ ~Has(Messages.pest)

\* The progressive engine has returned from a call without a temperature, on
\* a wet soil (the moisture half of the pest test holds).
C4_Witness ==
  /\ Progressive
  /\ temperature = Undefined
  /\ Has(Messages.wet)
  /\ Len(recommendations) >= 2

ScenarioCold == Progressive /\ ph = Num(50) /\ moisture = Num(25) /\ temperature = Num(5)

\* C5 as stated: ruleEngine(5.0, 25, 5) includes the acidic, dry, low, very
\* acidic, extremely dry, severe cold stress and nutrient messages and not
\* the crop-suitability message.
C5_Original ==
  ScenarioCold =>
    /\ Has(Messages.acidic)
    /\ Has(Messages.dry)
    /\ Has(Messages.low)
    /\ Has(Messages.veryAcidic)
    /\ Has(Messages.extremelyDry)
    /\ Has(Messages.coldStress)
    /\ Has(Messages.nutrient)
    /\ ~Has(Messages.crop)

\* C5 as amended: ruleEngine(5.0, 25, 5) includes the acidic, dry, low, very
\* acidic, severe cold stress and nutrient messages, and includes neither
\* the extremely dry message (25 is not below 20) nor the crop-suitability
\* message.
C5_ScenarioColdAcidDry ==
  ScenarioCold =>
    /\ Has(Messages.acidic)
    /\ Has(Messages.dry)
    /\ Has(Messages.low)
    /\ Has(Messages.veryAcidic)
    /\ ~Has(Messages.extremelyDry)
    /\ Has(Messages.coldStress)
    /\ Has(Messages.nutrient)
    /\ ~Has(Messages.crop)

\* The scenario ruleEngine(5.0, 25, 5) has been evaluated.
C5_Witness == ScenarioCold /\ Len(recommendations) = 6

ScenarioOptimal ==
  Progressive /\ ph = Num(65) /\ moisture = Num(50) /\ temperature = Num(25)

\* C6: ruleEngine(6.5, 50, 25) returns exactly four messages, in the order
\* optimal pH, good moisture, favorable temperature, crop-suitability (so no
\* advanced message, no nutrient warning and no pest warning).
C6_ScenarioOptimal ==
  ScenarioOptimal =>
    recommendations =
      <<Messages.optimal, Messages.good, Messages.favorable, Messages.crop>>

\* The scenario ruleEngine(6.5, 50, 25) has been evaluated.
C6_Witness == ScenarioOptimal /\ Has(Messages.crop)

\* The tier of a message of the progressive engine, in the order the claim
\* gives.
Rank(m) ==
  CASE m \in {Messages.acidic, Messages.alkaline, Messages.optimal} -> 1
    [] m \in {Messages.dry, Messages.wet, Messages.good} -> 2
    [] m \in {Messages.low, Messages.high, Messages.favorable} -> 3
    [] m \in {Messages.veryAcidic, Messages.stronglyAlkaline} -> 4
    [] m \in {Messages.extremelyDry, Messages.rootRot} -> 5
    [] m \in {Messages.coldStress, Messages.heatStress} -> 6
    [] m = Messages.nutrient -> 7
    [] m = Messages.pest -> 8
    [] m = Messages.crop -> 9

\* C7: in every output of the progressive engine the messages appear in the
\* order basic pH, basic moisture, basic temperature, advanced pH, advanced
\* moisture, advanced temperature, nutrient, pest, crop: no message of a
\* later tier precedes one of an earlier tier.
C7_TierOrder ==
  Progressive =>
    \A i, j \in DOMAIN recommendations :
      i < j => Rank(recommendations[i]) <= Rank(recommendations[j])

\* An output holding a message of eight of the nine tiers (all but crop).
C7_Witness == Progressive /\ Len(recommendations) = 8

\* C8: the advanced messages are emitted exactly on their thresholds (very
\* acidic iff ph < 5.5, strongly alkaline iff ph > 8.5, extremely dry iff
\* moisture < 20, root rot iff moisture > 80, cold stress iff
\* temperature < 10, heat stress iff temperature > 40), and each comes with
\* the basic message of the same direction.
C8_AdvancedAddsToBasic ==
  Progressive =>
    /\ Has(Messages.veryAcidic) <=> Below(ph, 55)
    /\ Has(Messages.stronglyAlkaline) <=> Above(ph, 85)
    /\ Has(Messages.extremelyDry) <=> Below(moisture, 20)
    /\ Has(Messages.rootRot) <=> Above(moisture, 80)
    /\ Has(Messages.coldStress) <=> Below(temperature, 10)
    /\ Has(Messages.heatStress) <=> Above(temperature, 40)
    /\ Has(Messages.veryAcidic) => Has(Messages.acidic)
    /\ Has(Messages.stronglyAlkaline) => Has(Messages.alkaline)
    /\ Has(Messages.extremelyDry) => Has(Messages.dry)
    /\ Has(Messages.rootRot) => Has(Messages.wet)
    /\ Has(Messages.coldStress) => Has(Messages.low)
    /\ Has(Messages.heatStress) => Has(Messages.high)

\* An output with an advanced message of each of the three readings next to
\* its basic message.
C8_Witness ==
  /\ Progressive
  /\ Has(Messages.veryAcidic) /\ Has(Messages.acidic)
  /\ Has(Messages.rootRot) /\ Has(Messages.wet)
  /\ Has(Messages.heatStress) /\ Has(Messages.high)

\* C9: the pest warning is in the output of the progressive engine if and
\* only if (moisture > 70 and temperature > 30) or temperature > 35; so
\* temperature = 30 on a wet soil, and temperature = 35 with moisture <= 70,
\* do not produce it.
C9_PestRiskIff ==
  Progressive =>
    /\ Has(Messages.pest) <=>
         ((Above(moisture, 70) /\ Above(temperature, 30)) \/ Above(temperature, 35))
    /\ (temperature = Num(30) /\ Above(moisture, 70)) => ~Has(Messages.pest)
    /\ (temperature = Num(35) /\ ~Above(moisture, 70)) => ~Has(Messages.pest)

\* Temperature 30 on a wet soil has been evaluated and gave no pest warning.
C9_Witness ==
  /\ Progressive
  /\ temperature = Num(30)
  /\ Has(Messages.wet)
  /\ ~Has(Messages.pest)

InCropRange ==
  /\ ph.type = "number" /\ ph.val >= 60 /\ ph.val <= 75
  /\ moisture.type = "number" /\ moisture.val >= 30 /\ moisture.val <= 70

\* C10: the crop-suitability message is in the output of the progressive
\* engine if and only if 6 <= ph <= 7.5 and 30 <= moisture <= 70 (bounds
\* included, whatever the temperature); a ph in (7.5, 8] gives the optimal
\* pH message without the crop-suitability message.
C10_CropTipsIff ==
  Progressive =>
    /\ Has(Messages.crop) <=> InCropRange
    /\ (Above(ph, 75) /\ ~Above(ph, 80)) =>
         (Has(Messages.optimal) /\ ~Has(Messages.crop))

\* A ph just above 7.5 on a soil of good moisture has been evaluated: optimal
\* pH message, no crop-suitability message.
C10_Witness ==
  /\ Progressive
  /\ ph = Num(76)
  /\ moisture = Num(30)
  /\ Has(Messages.optimal)
  /\ ~Has(Messages.crop)

\* C11: the nutrient-availability warning is in the output of the
\* progressive engine if and only if ph < 6 or ph > 8, that is exactly when
\* the basic pH message is the acidic or the alkaline one, never with the
\* optimal one.
C11_NutrientIff ==
  Progressive =>
    /\ Has(Messages.nutrient) <=> (Below(ph, 60) \/ Above(ph, 80))
    /\ Has(Messages.nutrient) <=> (Has(Messages.acidic) \/ Has(Messages.alkaline))
    /\ ~(Has(Messages.nutrient) /\ Has(Messages.optimal))

\* A ph between 8 and 8.5 has been evaluated: alkaline message and nutrient
\* warning, no advanced pH message.
C11_Witness ==
  /\ Progressive
  /\ ph = Num(81)
  /\ Has(Messages.alkaline)
  /\ Has(Messages.nutrient)
  /\ ~Has(Messages.stronglyAlkaline)

----------------------------------------------------------------------------
(* Properties of the conversation handler. *)

ChatDone == handler # "none"

\* The content of the newest message is typed text.
NewestIsText ==
  messages # <<>> /\ messages[Len(messages)].content.type = "string"

\* The newest message, trimmed and lower-cased.
Normalized == ToLowerCase(Trim(messages[Len(messages)].content.chars))

\* The lines of a prompt for the messages first..last, in order.
Lines(first, last) ==
  [i \in 1..(last - first + 1) |-> Render(messages[first + i - 1])]

\* The collaborator fails: the request fails, the response is malformed, the
\* answer is missing or empty, or the answer is no string.
CompletionFails ==
  \/ completion.kind \in {"network", "malformed"}
  \/ completion.answer.type # "string"
  \/ completion.answer = Str(<<>>)

\* C13: when the newest message, trimmed and lower-cased, is a phrase of the
\* command table, askPerplexityChat returns the canned response of that
\* phrase and the completion collaborator is not invoked in that call.
C13_CommandShortCircuit ==
  (ChatDone /\ NewestIsText /\ Normalized \in CommandKeys) =>
    /\ chatState = "returned"
    /\ chatValue = CommandsLookup(Normalized)
    /\ chatValue.type = "string"
    /\ prompts = <<>>

\* " HELP " (upper case, a space on each side) after prior turns has been
\* answered with the canned help text, without a prompt.
C13_Witness ==
  /\ handler = "axios"
  /\ Len(messages) > 1
  /\ messages[Len(messages)].content = Str(<<" ", "H", "E", "L", "P", " ">>)
  /\ chatValue = Str(<<commands.help>>)
  /\ prompts = <<>>

C16_ChatNeverRaises ==
  (ChatDone /\ messages # <<>>) =>
    /\ chatState = "returned"
    /\ (prompts # <<>> /\ CompletionFails) => chatValue = FallbackChat

\* The collaborator was asked and answered with a value that is no string;
\* the handler returned the fallback text.
C16_Witness ==
  /\ ChatDone
  /\ messages # <<>>
  /\ prompts # <<>>
  /\ completion.kind = "ok"
  /\ completion.answer = NonString("number")
  /\ chatState = "returned"
  /\ chatValue = FallbackChat

\* C19: for every message whose trimmed, lower-cased form is not one of the
\* six phrases of the command table, getPreassignedCommand returns null and
\* askPerplexityChat goes on to the completion collaborator, without
\* raising.
C19_ExactLookup ==
  (ChatDone /\ NewestIsText /\ Normalized \notin CommandKeys) =>
    /\ getPreassignedCommand(messages[Len(messages)].content) = NonString("null")
    /\ Len(prompts) = 1
    /\ chatState = "returned"

----------------------------------------------------------------------------
(* Properties of POST /recommend and askPerplexityRecommend. *)

RecommendDone == recommender # "none"

\* A reading is absent from the request: undefined or null.
Absent(v) == v.type \in {"undefined", "null"}

\* The collaborator fails: the request fails, the response is malformed, or
\* the answer is missing or empty.
RecommendCompletionFails ==
  \/ completion.kind \in {"network", "malformed"}
  \/ completion.answer.type \in {"undefined", "null"}
  \/ completion.answer = Str(<<>>)

\* C17: askPerplexityRecommend never raises, asks the completion
\* collaborator exactly once per call, with the prompt of the readings only
\* (no command table, no history), and when the collaborator fails (request
\* failure, malformed response, missing or empty answer) it returns exactly
\* "AI failed to provide a recommendation.".
C17_RecommendNeverRaises ==
  (RecommendDone /\ response.status # "400") =>
    /\ response.status = "200"
    /\ Len(prompts) = 1
    /\ prompts[1] =
         RecommendPrompt(recommender,
           [ph |-> ph, moisture |-> moisture, temperature |-> temperature,
            desiredCrop |-> desiredCrop])
    /\ RecommendCompletionFails => response.aiResponse = FallbackRecommend

\* C18: POST /recommend answers 400 whenever ph or moisture is absent
\* (undefined or null), and then neither ruleEngine nor the completion
\* collaborator has been invoked; a request with ph and moisture present (0
\* included), with or without a temperature, is accepted.
C18_RecommendValidation ==
  RecommendDone =>
    /\ (Absent(ph) \/ Absent(moisture)) =>
         /\ response.status = "400"
         /\ events = <<>>
         /\ engine = "none"
         /\ recommendations = <<>>
         /\ prompts = <<>>
    /\ (~Absent(ph) /\ ~Absent(moisture)) =>
         /\ response.status = "200"
         /\ events = <<"ruleEngine", "askPerplexityRecommend">>

\* A request with ph = 0, moisture = 0 and no temperature has been accepted.
C18_Witness ==
  /\ RecommendDone
  /\ ph = Num(0)
  /\ moisture = Num(0)
  /\ temperature = Undefined
  /\ response.status = "200"
  /\ Len(response.ruleEngine) >= 2

\* The call of the collaborator itself fails: the request fails or the
\* response cannot be read.
RecommendCallFails == completion.kind \in {"network", "malformed"}

\* C24: for a POST /recommend request with ph and moisture present,
\* ruleEngine runs before the completion collaborator is called, and the 200
\* response carries ruleEngine(ph, moisture, temperature) as its ruleEngine
\* field together with aiResponse; a failure of the collaborator leaves the
\* rule output as it is and makes aiResponse the fallback text.
C24_RuleEngineFirst ==
  (RecommendDone /\ ~Absent(ph) /\ ~Absent(moisture)) =>
    /\ events = <<"ruleEngine", "askPerplexityRecommend">>
    /\ response.status = "200"
    /\ response.ruleEngine = ruleEngine(ph, moisture, temperature)
    /\ response.ruleEngine = recommendations
    /\ response.aiResponse.type # "undefined"
    /\ RecommendCallFails => response.aiResponse = FallbackRecommend

\* A request was answered although the collaborator failed: the response
\* holds the rule output and the fallback text.
C24_Witness ==
  /\ recommender = "personality"
  /\ ph = Num(50)
  /\ moisture = Num(85)
  /\ temperature = Num(41)
  /\ completion.kind = "network"
  /\ response.status = "200"
  /\ Len(response.ruleEngine) >= 3
  /\ response.aiResponse = FallbackRecommend

----------------------------------------------------------------------------
(* Properties of POST /chat. *)

\* C15: when a request reads the history of a user with more than 5 stored
\* rows, the rows it reads (and hands to askPerplexityChat) are the most
\* recent ones of that user, in chronological order.
C15_RecentHistory ==
  [][ \A r \in RequestIds :
        ( /\ requests[r].pc # "saveUser"
          /\ requests'[r].pc = "saveUser"
          /\ Len(ChatRowsOf(ai_chats, requests[r].userId)) > 5 )
        => requests'[r].historyRows =
             SliceLast(ChatRowsOf(ai_chats, requests[r].userId), 5) ]_vars

\* C20: at most one row of chat_sessions with ended_at NULL exists per
\* user, whatever the interleaving of the requests.
C20_OneActiveSession ==
  \A u \in Users : Cardinality(ActiveSessions(chat_sessions, u)) <= 1

----------------------------------------------------------------------------
(* Properties of POST /api/users/:userId/orders. *)

\* The committed rows of orders of the user of request r.
OrderRowsOf(r) ==
  SelectSeq(orders, LAMBDA row : row.user_id = orderRequests[r].userId)

\* One row per item of request r.
RowsOfItems(r) ==
  [i \in DOMAIN orderRequests[r].items.list |->
     OrderRow(orderRequests[r].userId, orderRequests[r].items.list[i])]

\* The handler of request r has ended.
OrderEnded(r) == orderRequests[r].pc \in {"done", "raised"}

\* C21: POST /api/users/:userId/orders is atomic over its items: the
\* committed rows of a request are at every moment none or one row per item;
\* once the request has finished they are one row per item if it answered
\* 201 and none otherwise, so an insert that fails leaves none of the rows
\* of the earlier items.
C21_OrdersAtomic ==
  \A r \in RequestIds :
    /\ OrderRowsOf(r) \in {<<>>, RowsOfItems(r)}
    /\ OrderEnded(r) =>
         IF orderRequests[r].status = "201"
         THEN OrderRowsOf(r) = RowsOfItems(r)
         ELSE OrderRowsOf(r) = <<>>

\* The second insert of a request with two items failed after the first
\* went through, and no row of the request is in the table, while the other
\* request committed its rows.
C21_Witness ==
  /\ orderRequests[1].pc = "raised"
  /\ Len(orderRequests[1].items.list) = 2
  /\ Len(orderRequests[1].pending) = 1
  /\ OrderRowsOf(1) = <<>>
  /\ orderRequests[2].status = "201"
  /\ Len(orders) >= 1

\* C22: when the handler of a request that acquired a connection has ended,
\* its transaction is committed or rolled back, the connection is released
\* and a response is sent; after a failed insert the response is 500
\* "Failed to place order".
C22_OrdersReleaseConnection ==
  \A r \in RequestIds :
    (OrderEnded(r) /\ orderRequests[r].connection # "none") =>
      /\ orderRequests[r].transaction \in {"none", "committed", "rolledback"}
      /\ orderRequests[r].connection = "released"
      /\ orderRequests[r].status \in {"201", "500"}
      /\ orderRequests[r].status = "500" =>
           orderRequests[r].error = "Failed to place order"

----------------------------------------------------------------------------
(* Properties of the lands routes. *)

\* The row of lands written by the request.
LandWritten ==
  CHOOSE row \in lands :
    row.id = (IF landRequests[1].method = "POST" THEN landRequests[1].insertId
              ELSE landRequests[1].landId)

\* C26: when a land is added or updated, every optional field supplied in
\* the request is stored with the supplied value and only the fields missing
\* from the request are stored as null; a supplied ph, moisture or
\* temperature of 0 is stored as 0.
C26_SuppliedFieldsStored ==
  (landRequests # <<>> /\ landRequests[1].status \in {"200", "201"}) =>
    LET b == landRequests[1].body
        row == LandWritten
    IN /\ row.ph = SqlValue(b.ph)
       /\ row.moisture = SqlValue(b.moisture)
       /\ row.temperature = SqlValue(b.temperature)
       /\ row.crop = SqlText(b.crop)

----------------------------------------------------------------------------
(* Properties of DELETE /api/users/:userId. *)

\* The ids of the users whose deletion has been answered with success.
Deleted ==
  {deleteRequests[r].userId.val : r \in {q \in RequestIds :
      deleteRequests[q].status = "200"}}

\* C23: DELETE /api/users/:userId runs in one transaction and releases its
\* connection on every path.  The tables are what they were before the
\* requests without the rows of the users deleted with success: the user
\* row and all lands of that user go together, and a request answered 404 or
\* 500 has rolled back and changed no row.
C23_DeleteUserAtomic ==
  /\ users = {row \in InitialUsers : row.user_id \notin Deleted}
  /\ lands = {row \in InitialLands : row.user_id \notin Deleted}
  /\ \A r \in RequestIds :
       LET req == deleteRequests[r]
       IN /\ req.transaction = "committed" <=> req.status = "200"
          /\ req.status \in {"404", "500"} => req.transaction = "rolledback"
          /\ req.pc \in {"done", "raised"} => req.connection # "held"
          /\ req.status \in {"200", "404", "500"} => req.connection = "released"

\* User 1 and both lands of user 1 are gone, the land of user 2 is kept, and
\* the other request, for no user, was answered 404.
C23_Witness ==
  /\ deleteRequests[1].status = "404"
  /\ deleteRequests[2].status = "200"
  /\ deleteRequests[2].userId = Num(1)
  /\ Cardinality(users) = 1
  /\ Cardinality(lands) = 1

----------------------------------------------------------------------------
(* Properties of PUT /api/users/:userId/change-password. *)

\* The stored password of user u in the table.
PasswordOf(table, u) == (CHOOSE row \in table : row.user_id = u).password

\* C25: a step of a request changes the stored password only when the
\* oldPassword of the request equals the password stored at the time of
\* the update, and then the stored password becomes newPassword; a request
\* answered 400, 404 or 401 leaves it unchanged.  This holds when two
\* requests for the same user interleave.
C25_PasswordChangeGuarded ==
  [][ \A r \in RequestIds :
        passwordRequests'[r] # passwordRequests[r] =>
          LET req == passwordRequests[r]
              u == req.userId.val
          IN /\ users' # users =>
                  /\ req.oldPassword = PasswordOf(users, u)
                  /\ PasswordOf(users', u) = req.newPassword
             /\ passwordRequests'[r].status \in {"400", "401", "404"} =>
                  users' = users ]_vars

----------------------------------------------------------------------------
(* Properties of the rows written by POST /chat. *)

\* The row of ai_chats that request r writes for its message, and for the
\* answer it got.
UserRowOf(r) ==
  [ session_id |-> requests[r].sessionId, user_id |-> requests[r].userId,
    message |-> requests[r].message, sender |-> "user" ]

AiRowOf(r) ==
  [ session_id |-> requests[r].sessionId, user_id |-> requests[r].userId,
    message |-> requests[r].aiResponse, sender |-> "ai" ]

\* The rows of ai_chats that were stored before the requests arrived.
StoredBefore ==
  {i \in DOMAIN ai_chats :
     ai_chats[i].message \in {PriorTurn(k).content : k \in 1..MaxStored}}

\* C28: a POST /chat request that responds 200 has added exactly two rows to
\* ai_chats for its user under one session id: the user's message first,
\* stored before the chat handler is invoked, then the returned aiResponse
\* with sender 'ai' (a canned command response, the collaborator's answer
\* or the fallback text).  A request that fails after storing the user
\* message responds 500 and leaves the user row with no ai row.
C28_TwoRowsPerChat ==
  /\ \A r \in RequestIds :
       LET req == requests[r]
       IN /\ req.pc \in {"ask", "saveAi"} => req.added = <<UserRowOf(r)>>
          /\ req.status = "200" =>
               /\ req.added = <<UserRowOf(r), AiRowOf(r)>>
               /\ \E i, j \in DOMAIN ai_chats :
                    i < j /\ ai_chats[i] = UserRowOf(r) /\ ai_chats[j] = AiRowOf(r)
               /\ req.aiResponse \in
                    {Str(<<commands.hi>>), FallbackChat} \cup
                      {c.answer : c \in {d \in RouteCompletions : d.kind = "ok"}}
          /\ req.status = "500" => req.added \in {<<>>, <<UserRowOf(r)>>}
  /\ Len(ai_chats) - Cardinality(StoredBefore) =
       Len(requests[1].added) + Len(requests[2].added)

\* One request was answered with the fallback text and has its two rows;
\* the other failed after storing the message of the user.
C28_Witness ==
  /\ requests[1].status = "200"
  /\ requests[1].aiResponse = FallbackChat
  /\ requests[1].added = <<UserRowOf(1), AiRowOf(1)>>
  /\ requests[2].status = "500"
  /\ requests[2].added = <<UserRowOf(2)>>
  /\ requests[2].userId = "u1"

----------------------------------------------------------------------------
(* Properties of GET /api/chat/history/:userId. *)

\* C27: the response of GET /api/chat/history/:userId has hasMore = true if
\* and only if offset + the number of returned rows is less than the number
\* of rows the user has stored when the response is sent, whatever POST
\* /chat and clear-chat requests ran between the page query and the count
\* query.
C27_HasMoreIffRowsBeyondPage ==
  [][ ( /\ historyRequests # <<>>
        /\ historyRequests[1].status # "200"
        /\ historyRequests'[1].status = "200" )
      => LET req == historyRequests'[1]
         IN req.hasMore <=>
              req.offset + Len(req.rows) < Len(ChatRowsOf(ai_chats', req.userId)) ]_vars

\* The page came back short of its limit and hasMore is true: a POST /chat
\* request stored a row between the page query and the count query.
C27_Witness ==
  /\ historyRequests # <<>>
  /\ historyRequests[1].status = "200"
  /\ historyRequests[1].hasMore
  /\ historyRequests[1].offset = 2
  /\ Len(historyRequests[1].rows) = 1
  /\ historyRequests[1].limit = 2

====
